---- MODULE Spec2Model ----
(***************************************************************************)
(* Model of SpiralsMain.py: the main panel (address verification and the   *)
(* conversion + solve pipeline) and the ports popup (the in-memory port    *)
(* store, its loading from and saving to ports_config.json, and the plot   *)
(* dispatch).                                                              *)
(*                                                                         *)
(* Text is modelled as a sequence of one-character strings.  A path is the *)
(* sequence of its components below the root.  Python values and JSON      *)
(* texts are tagged records, so that json.dumps / json.loads are real      *)
(* conversions between two different representations.                      *)
(***************************************************************************)
EXTENDS Integers, Sequences, FiniteSets, TLC

(* ------------------------------ bounds ------------------------------- *)

\* Presses of "Run conversion + solvers" and started generators explored
\* on the main panel, taken together.
MaxRuns == 2

\* Popup sessions (openings of the ports popup) explored.
MaxSessions == 1

\* Clicks on apply, remove and save explored in one popup session.
MaxClicks == 2

\* Launches of the geometry generator explored.
MaxLaunches == 2

(* --------------------------- text helpers ---------------------------- *)

RECURSIVE LStrip(_, _)
\* str.lstrip(chars): drop every leading character that is in chars.
LStrip(s, chars) ==
    IF s = <<>> THEN <<>>
    ELSE IF Head(s) \in chars THEN LStrip(Tail(s), chars) ELSE s

RECURSIVE RStrip(_, _)
\* str.rstrip(chars): drop every trailing character that is in chars.
RStrip(s, chars) ==
    IF s = <<>> THEN <<>>
    ELSE IF s[Len(s)] \in chars THEN RStrip(SubSeq(s, 1, Len(s) - 1), chars) ELSE s

\* str.strip(chars)
StripChars(s, chars) == RStrip(LStrip(s, chars), chars)

\* line.strip().strip('"').strip("'")
StripLine(line) == StripChars(StripChars(StripChars(line, {" ", "\t"}), {"\""}), {"'"})

RECURSIVE SplitOn(_, _, _)
\* The pieces of s between separator characters, empty pieces included;
\* cur is the piece being read.
SplitOn(s, seps, cur) ==
    IF s = <<>> THEN <<cur>>
    ELSE IF Head(s) \in seps THEN <<cur>> \o SplitOn(Tail(s), seps, <<>>)
    ELSE SplitOn(Tail(s), seps, Append(cur, Head(s)))

\* str.splitlines(): the lines of a text, without a last empty line.
SplitLines(text) ==
    LET pieces == SplitOn(text, {"\n"}, <<>>)
    IN  IF pieces[Len(pieces)] = <<>> THEN SubSeq(pieces, 1, Len(pieces) - 1) ELSE pieces

\* str.split(): the maximal runs of non-whitespace characters.
SplitWords(s) == SelectSeq(SplitOn(s, {" ", "\t"}, <<>>), LAMBDA w : w # <<>>)

RECURSIVE ReplaceChar(_, _, _)
\* str.replace(old, new) for one-character old and new.
ReplaceChar(s, old, new) ==
    IF s = <<>> THEN <<>>
    ELSE <<IF Head(s) = old THEN new ELSE Head(s)>> \o ReplaceChar(Tail(s), old, new)

(* ------------------------------- paths ------------------------------- *)

\* Components of the directory that holds the manifest (address_file.parent).
ManifestParent == << <<"w">> >>

\* Path(text).is_absolute()
IsAbsolute(text) == text # <<>> /\ Head(text) = "/"

\* The components of Path(text): pieces between "/", empty pieces and "." dropped.
PathParts(text) ==
    SelectSeq(SplitOn(text, {"/"}, <<>>), LAMBDA p : p # <<>> /\ p # <<".">>)

RECURSIVE ResolveParts(_, _)
\* Path.resolve() on components: ".." removes the component before it.
ResolveParts(parts, done) ==
    IF parts = <<>> THEN done
    ELSE IF Head(parts) = <<".", ".">>
         THEN ResolveParts(Tail(parts),
                           IF done = <<>> THEN <<>> ELSE SubSeq(done, 1, Len(done) - 1))
         ELSE ResolveParts(Tail(parts), Append(done, Head(parts)))

RECURSIVE Joined(_)
\* The characters of one component as a string.
Joined(chars) == IF chars = <<>> THEN "" ELSE Head(chars) \o Joined(Tail(chars))

RECURSIVE JoinedAll(_)
JoinedAll(parts) ==
    IF parts = <<>> THEN <<>> ELSE <<Joined(Head(parts))>> \o JoinedAll(Tail(parts))

\* One manifest line to its entry: Path(stripped), made absolute against the
\* manifest's directory, resolved.
EntryOf(stripped) ==
    JoinedAll(IF IsAbsolute(stripped) THEN ResolveParts(PathParts(stripped), <<>>)
              ELSE ResolveParts(PathParts(stripped), ManifestParent))

RECURSIVE EntriesOfLines(_)
EntriesOfLines(lines) ==
    IF lines = <<>> THEN <<>>
    ELSE LET stripped == StripLine(Head(lines))
         IN  IF stripped = <<>> THEN EntriesOfLines(Tail(lines))
             ELSE <<EntryOf(stripped)>> \o EntriesOfLines(Tail(lines))

\* read_address_entries(address_file) for a readable file with this text.
read_address_entries(text) == EntriesOfLines(SplitLines(text))

(* --------------------------- Python values --------------------------- *)

PyNone == [py |-> "None"]
PyStr(s) == [py |-> "str", s |-> s]
PyInt(v) == [py |-> "int", v |-> v]
\* A float as its sign and its magnitude, so that -0.0 is not 0.0.
Float(neg, mag) == [neg |-> neg, mag |-> mag]
PyFloat(v) == [py |-> "float", v |-> v]
PyList(l) == [py |-> "list", l |-> l]
PyDict(d) == [py |-> "dict", d |-> d]

\* The empty dict {}.
EmptyDict == PyDict(<<>>)

IsDict(x) == x.py = "dict"

\* d[key] = value on a dict value (insert or replace).
DictSet(x, key, value) ==
    PyDict([k \in DOMAIN x.d \cup {key} |-> IF k = key THEN value ELSE x.d[k]])

\* d.pop(key) on a dict value that has the key.
DictPop(x, key) == PyDict([k \in DOMAIN x.d \ {key} |-> x.d[k]])

DigitValue(c) ==
    CASE c = "0" -> 0 [] c = "1" -> 1 [] c = "2" -> 2 [] c = "3" -> 3 [] c = "4" -> 4
      [] c = "5" -> 5 [] c = "6" -> 6 [] c = "7" -> 7 [] c = "8" -> 8 [] c = "9" -> 9

IsDigit(c) == c \in {"0", "1", "2", "3", "4", "5", "6", "7", "8", "9"}

RECURSIVE DigitsValue(_, _)
DigitsValue(chars, acc) ==
    IF chars = <<>> THEN acc
    ELSE DigitsValue(Tail(chars), 10 * acc + DigitValue(Head(chars)))

\* float(token) for tokens over the alphabet of signs, decimal digits and
\* letters other than those of "inf", "nan" and exponents: an optional sign
\* and decimal digits give the float of that sign and magnitude ("-0" gives
\* -0.0); any other such token raises ValueError (ok = FALSE).
ParseFloat(token) ==
    LET signed == token # <<>> /\ Head(token) \in {"+", "-"}
        digits == IF signed THEN Tail(token) ELSE token
        ok == digits # <<>> /\ \A i \in 1..Len(digits) : IsDigit(digits[i])
    IN  IF ~ok THEN [ok |-> FALSE, v |-> Float(FALSE, 0)]
        ELSE [ok |-> TRUE,
              v |-> Float(signed /\ Head(token) = "-", DigitsValue(digits, 0))]

(* -------------------------------- JSON ------------------------------- *)

\* A JSON text is modelled by its syntax tree.  A number literal keeps its
\* sign, its digits and whether it is written with a fraction part ("1.0")
\* or without ("1").
JNull == [j |-> "null"]
JString(s) == [j |-> "string", s |-> s]
JNumber(neg, mag, frac) == [j |-> "number", neg |-> neg, mag |-> mag, frac |-> frac]
JArray(a) == [j |-> "array", a |-> a]
JObject(m) == [j |-> "object", m |-> m]

\* DumpFloat losing the sign.
DumpFloatUnsigned(v) == JNumber(FALSE, v.mag, TRUE)

\* json.dumps of a float: repr(), with its sign and always with a fraction
\* part ("-0.0" for -0.0).
DumpFloat(v) == JNumber(v.neg, v.mag, TRUE)

\* json.dumps of an int.
DumpInt(v) == JNumber(v < 0, IF v < 0 THEN 0 - v ELSE v, FALSE)

RECURSIVE JsonDumps(_)
JsonDumps(x) ==
    CASE x.py = "None" -> JNull
      [] x.py = "str" -> JString(x.s)
      [] x.py = "int" -> DumpInt(x.v)
      [] x.py = "float" -> DumpFloat(x.v)
      [] x.py = "list" -> JArray([i \in 1..Len(x.l) |-> JsonDumps(x.l[i])])
      [] x.py = "dict" -> JObject([k \in DOMAIN x.d |-> JsonDumps(x.d[k])])

\* json.loads of a number literal: int without a fraction part, else the
\* float of the literal's sign and magnitude.
LoadNumber(t) ==
    IF t.frac THEN PyFloat(Float(t.neg, t.mag))
    ELSE PyInt(IF t.neg THEN 0 - t.mag ELSE t.mag)

RECURSIVE JsonLoads(_)
JsonLoads(t) ==
    CASE t.j = "null" -> PyNone
      [] t.j = "string" -> PyStr(t.s)
      [] t.j = "number" -> LoadNumber(t)
      [] t.j = "array" -> PyList([i \in 1..Len(t.a) |-> JsonLoads(t.a[i])])
      [] t.j = "object" -> PyDict([k \in DOMAIN t.m |-> JsonLoads(t.m[k])])

\* The content of a ports_config.json: no file, a file that is not JSON
\* text, or a JSON text.
NoFile == [kind |-> "absent"]
NotJson == [kind |-> "invalid"]
JsonFile(t) == [kind |-> "json", text |-> t]

\* json.dumps({"ports": ports}, indent=2) written to the variant's document.
PersistedDocument(value) == JsonFile(JsonDumps(PyDict([ports |-> value])))

(* ------------------------------- state ------------------------------- *)

VARIABLES
    \* the file system
    manifest,      \* the file var_address names: [isFile, readable, text]
    dirs,          \* the directories that exist (resolved paths)
    matrix,        \* path -> [ok, rows]: the FastSolver/CapacitanceMatrix.txt files
    docs,          \* path -> content of the variant's ports_config.json
    writable,      \* the paths whose ports_config.json can be opened for writing
    diskfull,      \* the paths whose ports_config.json, once opened, cannot be written
    plotting,      \* path -> what PG.process_spiral does for the variant
    \* MainApp
    var_address,   \* the Address.txt entry field
    log,           \* the log widget: the entries inserted so far
    runs,          \* pipeline runs so far
    procs,         \* the generator processes launched, in order
    timers,        \* the launches whose after() callback has not fired yet
    boxes,         \* the modal boxes open whose handler goes on when they close
    \* PortsPopup
    ui,            \* "closed", "loading" (window up, __init__ in a box), or how far
                   \* _build_ui got: "tree", "edit", "full"
    spiral_paths,  \* self.spiral_paths
    ports,         \* self.ports: path -> Python value
    ports_order,   \* the keys of self.ports in insertion order
    sessions,      \* popups opened so far
    clicks,        \* apply / remove / save clicks in this popup
    \* what the last handler did (history)
    last

vars == <<manifest, dirs, matrix, docs, writable, diskfull, plotting, var_address, log, runs,
          procs, timers, boxes, ui, spiral_paths, ports, ports_order, sessions, clicks, last>>

env == <<manifest, dirs, matrix, writable, diskfull, plotting>>

gen == <<procs, timers>>

Range(seq) == {seq[i] : i \in 1..Len(seq)}

\* path.name
NameOf(path) == path[Len(path)]

\* A history record: the handler, the exception that ended it ("" for none),
\* and what it did, in order.
NoHistory ==
    [op |-> "init", raised |-> "", dialogs |-> <<>>, reported |-> <<>>,
     verified |-> FALSE, launched |-> <<>>, exits |-> <<>>, opened |-> FALSE,
     batch |-> <<>>, name |-> "", nsigns |-> 0,
     keys |-> <<>>, writes |-> <<>>, plots |-> <<>>, records |-> <<>>,
     order |-> <<>>, csv |-> FALSE, logged |-> 0, emitted |-> <<>>, events |-> <<>>]

History(op) == [NoHistory EXCEPT !.op = op]

\* A modal messagebox returns to Tk's event loop until it is closed: timer
\* callbacks run while it is open, button presses do not.  A box after
\* which the handler only returns is part of the handler's step; a box
\* after which the handler does more is a frame on this stack: the box
\* shown, the history of its handler so far, and the generator it is about.
Frame(at, h, i) == [at |-> at, h |-> h, i |-> i]

\* The box opened last, which is the one that can be closed.
TopBox == boxes[Len(boxes)]

\* The boxes under the top one.
UnderTop == SubSeq(boxes, 1, Len(boxes) - 1)

\* A button is pressed: no box is open, and its handler leaves none open.
Pressed == boxes = <<>> /\ boxes' = boxes

(* ------------------------- PortsPopup: loading ------------------------ *)

\* PortsPopup._count_conductors
_count_conductors(path) ==
    IF path \in DOMAIN matrix /\ matrix[path].ok THEN matrix[path].rows ELSE 0

\* PortsPopup._load_spiral_paths: [] when the manifest cannot be read, else
\* the entries that have a CapacitanceMatrix.txt.
_load_spiral_paths ==
    IF var_address = "" \/ ~manifest.isFile \/ ~manifest.readable THEN <<>>
    ELSE SelectSeq(read_address_entries(manifest.text), LAMBDA p : p \in DOMAIN matrix)

\* The value load stores for a variant whose document exists:
\* json.loads(...).get("ports", {}), or {} when anything raises.
LoadDocument(doc) ==
    IF doc.kind # "json" THEN EmptyDict
    ELSE LET data == JsonLoads(doc.text)
         IN  IF ~IsDict(data) THEN EmptyDict
             ELSE IF "ports" \in DOMAIN data.d THEN data.d["ports"] ELSE EmptyDict

\* cfg_path.exists()
DocExists(path) == path \in DOMAIN docs /\ docs[path].kind # "absent"

RECURSIVE Unique(_, _)
\* The first occurrences of a sequence's elements, in order.
Unique(seq, seen) ==
    IF seq = <<>> THEN <<>>
    ELSE IF Head(seq) \in seen THEN Unique(Tail(seq), seen)
    ELSE <<Head(seq)>> \o Unique(Tail(seq), seen \cup {Head(seq)})

\* PortsPopup._load_existing_ports: the keys in insertion order.
LoadedOrder(paths) == Unique(SelectSeq(paths, DocExists), {})

\* PortsPopup._load_existing_ports: the mapping.
_load_existing_ports(paths) ==
    [p \in Range(LoadedOrder(paths)) |-> LoadDocument(docs[p])]

\* _refresh_summary runs to its end: every value of self.ports has .items()
\* and every port entry has .get().
SummaryOk(store) ==
    \A p \in DOMAIN store :
        /\ IsDict(store[p])
        /\ \A n \in DOMAIN store[p].d : IsDict(store[p].d[n])

\* How far PortsPopup._build_ui gets: tree.insert raises on a repeated iid
\* ("tree"), _refresh_summary raises before the save and cancel buttons
\* exist ("edit"), or the popup is complete ("full").
BuiltUi(paths, store) ==
    IF Len(Unique(paths, {})) # Len(paths) THEN "tree"
    ELSE IF ~SummaryOk(store) THEN "edit"
    ELSE "full"

\* PortsPopup.__init__ up to the end, or up to the box _load_spiral_paths
\* shows ("Address read error", "No solved spirals"), which is open before
\* spiral_paths and ports are assigned; h is the history of the handler
\* that opens the popup and under the boxes that stay open.
PopupOpened(h, under) ==
    LET readFails == ~manifest.isFile \/ ~manifest.readable
        paths == _load_spiral_paths
        store == _load_existing_ports(paths)
        built == BuiltUi(paths, store)
        shown == IF readFails THEN "Address read error" ELSE "No solved spirals"
        hbox == [h EXCEPT !.opened = TRUE, !.dialogs = h.dialogs \o <<shown>>]
    IN  /\ sessions' = sessions + 1
        /\ clicks' = 0
        /\ IF readFails \/ paths = <<>>
           THEN /\ ui' = "loading"
                /\ spiral_paths' = <<>>
                /\ ports' = <<>>
                /\ ports_order' = <<>>
                /\ boxes' = Append(under, Frame(shown, hbox, 0))
                /\ last' = hbox
           ELSE /\ ui' = built
                /\ spiral_paths' = paths
                /\ ports' = store
                /\ ports_order' = LoadedOrder(paths)
                /\ boxes' = under
                /\ last' = [h EXCEPT
                              !.opened = TRUE,
                              !.raised = CASE built = "tree" -> "TclError"
                                           [] built = "edit" -> "AttributeError"
                                           [] OTHER -> ""]

\* The box of _load_spiral_paths is closed: the rest of PortsPopup.__init__
\* over the empty list it returns.
PopupLoaded ==
    /\ boxes # <<>>
    /\ TopBox.at \in {"Address read error", "No solved spirals"}
    /\ ui' = BuiltUi(<<>>, _load_existing_ports(<<>>))
    /\ spiral_paths' = <<>>
    /\ ports' = _load_existing_ports(<<>>)
    /\ ports_order' = LoadedOrder(<<>>)
    /\ boxes' = UnderTop
    /\ last' = TopBox.h
    /\ UNCHANGED <<env, gen, docs, var_address, log, runs, sessions, clicks>>

\* The popup's fields once the window is destroyed.
PopupClosed ==
    /\ ui' = "closed"
    /\ spiral_paths' = <<>>
    /\ ports' = <<>>
    /\ ports_order' = <<>>
    /\ clicks' = 0

(* ------------------------------ MainApp ------------------------------ *)

\* _verify_address without the check for missing folders.
VerifyWithoutMissingCheck ==
    IF var_address = "" \/ ~manifest.isFile
    THEN [ok |-> FALSE, dialog |-> "Address missing", missing |-> <<>>]
    ELSE IF ~manifest.readable
    THEN [ok |-> FALSE, dialog |-> "Invalid Address.txt", missing |-> <<>>]
    ELSE [ok |-> TRUE, dialog |-> "Address check", missing |-> <<>>]

\* MainApp._verify_address: the result, the dialog shown, the folders named.
_verify_address ==
    IF var_address = "" \/ ~manifest.isFile
    THEN [ok |-> FALSE, dialog |-> "Address missing", missing |-> <<>>]
    ELSE IF ~manifest.readable
    THEN [ok |-> FALSE, dialog |-> "Invalid Address.txt", missing |-> <<>>]
    ELSE LET entries == read_address_entries(manifest.text)
             missing == SelectSeq(entries, LAMBDA p : p \notin dirs)
         IN  IF missing # <<>>
             THEN [ok |-> FALSE, dialog |-> "Missing folders", missing |-> missing]
             ELSE [ok |-> TRUE, dialog |-> "Address check", missing |-> <<>>]

\* The text subprocess.run captures from one stream of a process: the
\* stream's chunks, in order.
RECURSIVE Captured(_, _)
Captured(chunks, stream) ==
    IF chunks = <<>> THEN <<>>
    ELSE (IF Head(chunks).stream = stream THEN <<Head(chunks).text>> ELSE <<>>)
         \o Captured(Tail(chunks), stream)

LogEntry(kind, stage, data) == [kind |-> kind, stage |-> stage, data |-> data]

\* One thing log_subprocess does: "run" (subprocess.run, from launch to
\* exit), "insert" (log_widget.insert of an entry of that kind) or "dialog"
\* (messagebox.showerror).
Event(ev, stage, kind) == [ev |-> ev, stage |-> stage, kind |-> kind]

\* log_subprocess inserting the standard error before the standard output.
LogSubprocessStderrFirst(stage, proc) ==
    LET out == Captured(proc.chunks, "out")
        err == Captured(proc.chunks, "err")
        texts == (IF err # <<>> THEN <<LogEntry("stderr", stage, err)>> ELSE <<>>)
                 \o (IF out # <<>> THEN <<LogEntry("stdout", stage, out)>> ELSE <<>>)
        inserts == [i \in 1..Len(texts) |-> Event("insert", stage, texts[i].kind)]
        start == <<Event("insert", stage, "cmd"), Event("run", stage, "")>>
    IN  IF proc.exit = 0
        THEN [ok |-> TRUE, entries |-> <<LogEntry("cmd", stage, <<>>)>> \o texts,
              events |-> start \o inserts]
        ELSE [ok |-> FALSE,
              entries |-> <<LogEntry("cmd", stage, <<>>)>> \o texts
                          \o <<LogEntry("failed", stage, <<>>)>>,
              events |-> start \o inserts
                         \o <<Event("insert", stage, "failed"),
                              Event("dialog", stage, "Command failed")>>]

\* log_subprocess(cmd, log_widget) for a process that behaves as proc: the
\* result, the entries inserted into the log, and what it does, in order.
log_subprocess(stage, proc) ==
    LET out == Captured(proc.chunks, "out")
        err == Captured(proc.chunks, "err")
        texts == (IF out # <<>> THEN <<LogEntry("stdout", stage, out)>> ELSE <<>>)
                 \o (IF err # <<>> THEN <<LogEntry("stderr", stage, err)>> ELSE <<>>)
        inserts == [i \in 1..Len(texts) |-> Event("insert", stage, texts[i].kind)]
        start == <<Event("insert", stage, "cmd"), Event("run", stage, "")>>
    IN  IF proc.exit = 0
        THEN [ok |-> TRUE, entries |-> <<LogEntry("cmd", stage, <<>>)>> \o texts,
              events |-> start \o inserts]
        ELSE [ok |-> FALSE,
              entries |-> <<LogEntry("cmd", stage, <<>>)>> \o texts
                          \o <<LogEntry("failed", stage, <<>>)>>,
              events |-> start \o inserts
                         \o <<Event("insert", stage, "failed"),
                              Event("dialog", stage, "Command failed")>>]

\* PipelineStages without the "if not ok: return" after the conversion.
PipelineStagesNoReturn(conv, solve) ==
    <<[stage |-> "conversion", exit |-> conv.exit, chunks |-> conv.chunks,
       res |-> log_subprocess("conversion", conv)],
      [stage |-> "solve", exit |-> solve.exit, chunks |-> solve.chunks,
       res |-> log_subprocess("solve", solve)]>>

\* The stages of _run_pipeline that are launched when the processes behave
\* as conv and solve: each stage with its log_subprocess result, up to and
\* including the first that fails.
PipelineStages(conv, solve) ==
    LET r1 == log_subprocess("conversion", conv)
        r2 == log_subprocess("solve", solve)
        s1 == [stage |-> "conversion", exit |-> conv.exit, chunks |-> conv.chunks, res |-> r1]
        s2 == [stage |-> "solve", exit |-> solve.exit, chunks |-> solve.chunks, res |-> r2]
    IN  IF ~r1.ok THEN <<s1>> ELSE <<s1, s2>>

RECURSIVE StageEntries(_)
StageEntries(stages) ==
    IF stages = <<>> THEN <<>> ELSE Head(stages).res.entries \o StageEntries(Tail(stages))

RECURSIVE StageEvents(_)
StageEvents(stages) ==
    IF stages = <<>> THEN <<>> ELSE Head(stages).res.events \o StageEvents(Tail(stages))

\* The entry field is filled in (Browse, or typing).
_browse_address ==
    /\ ui = "closed"
    /\ Pressed
    /\ var_address = ""
    /\ var_address' = "Address.txt"
    /\ last' = History("browse")
    /\ UNCHANGED <<env, gen, docs, log, runs, ui, spiral_paths, ports, ports_order,
                   sessions, clicks>>

\* The Verify button.
VerifyClicked ==
    /\ ui = "closed"
    /\ Pressed
    /\ last' = [History("verify") EXCEPT
                  !.verified = TRUE,
                  !.dialogs = <<_verify_address.dialog>>,
                  !.reported = _verify_address.missing]
    /\ UNCHANGED <<env, gen, docs, var_address, log, runs, ui, spiral_paths, ports,
                   ports_order, sessions, clicks>>

\* MainApp._run_pipeline up to the box of _verify_address: the handler
\* returns after a box that reports a failure, and goes on after the
\* "Address check" box.
_run_pipeline ==
    LET v == _verify_address
        h == [History("run_pipeline") EXCEPT
                !.verified = TRUE,
                !.dialogs = <<v.dialog>>,
                !.reported = v.missing,
                !.logged = Len(log)]
    IN  /\ ui = "closed"
        /\ boxes = <<>>
        /\ runs + Len(procs) < MaxRuns
        /\ sessions < MaxSessions
        /\ runs' = runs + 1
        /\ last' = h
        /\ boxes' = IF v.ok THEN <<Frame("Address check", h, 0)>> ELSE boxes
        /\ UNCHANGED <<env, gen, docs, var_address, log, ui, spiral_paths, ports,
                       ports_order, sessions, clicks>>

\* MainApp._run_pipeline from the closing of the "Address check" box: the
\* two log_subprocess calls, with the processes behaving as conv and solve,
\* up to the return after a failed stage or to the "Solvers complete" box.
_run_pipeline_stages(conv, solve) ==
    LET stages == PipelineStages(conv, solve)
        ok == stages[Len(stages)].res.ok
        h == [TopBox.h EXCEPT
                !.launched = [i \in 1..Len(stages) |-> stages[i].stage],
                !.exits = [i \in 1..Len(stages) |-> stages[i].exit],
                !.emitted = [i \in 1..Len(stages) |-> stages[i].chunks],
                !.events = StageEvents(stages),
                !.dialogs = TopBox.h.dialogs \o
                    (IF ok THEN <<"Solvers complete">> ELSE <<"Command failed">>)]
    IN  /\ boxes # <<>>
        /\ TopBox.at = "Address check"
        /\ log' = log \o StageEntries(stages)
        /\ last' = h
        /\ boxes' = IF ok THEN Append(UnderTop, Frame("Solvers complete", h, 0)) ELSE UnderTop
        /\ UNCHANGED <<env, gen, docs, var_address, runs, ui, spiral_paths, ports,
                       ports_order, sessions, clicks>>

\* MainApp._run_pipeline from the closing of the "Solvers complete" box:
\* self._open_ports_popup().
_run_pipeline_popup ==
    /\ boxes # <<>>
    /\ TopBox.at = "Solvers complete"
    /\ PopupOpened(TopBox.h, UnderTop)
    /\ UNCHANGED <<env, gen, docs, var_address, log, runs>>

\* MainApp._open_ports_popup (the "Configure ports / plots" button).
_open_ports_popup ==
    /\ ui = "closed"
    /\ boxes = <<>>
    /\ sessions < MaxSessions
    /\ UNCHANGED <<env, gen, docs, var_address, log, runs>>
    /\ IF var_address = ""
       THEN /\ last' = [History("open_popup") EXCEPT !.dialogs = <<"Address needed">>]
            /\ UNCHANGED <<boxes, ui, spiral_paths, ports, ports_order, sessions, clicks>>
       ELSE PopupOpened(History("open_popup"), boxes)

\* The Cancel button, or the window being closed.
Cancel ==
    /\ ui # "closed"
    /\ Pressed
    /\ PopupClosed
    /\ last' = History("cancel")
    /\ UNCHANGED <<env, gen, docs, var_address, log, runs, sessions>>

\* A generator process just started by subprocess.Popen: running, nothing
\* written yet; polled is what each proc.poll() call on it returned, and
\* dialog and logged are what _check_proc showed and inserted for it.
NewProc ==
    [running |-> TRUE, ret |-> 0, out |-> "", err |-> "",
     polled |-> <<>>, dialog |-> "", logged |-> ""]

\* What proc.poll() returns: None while the process runs, else its status.
Poll(pr) == IF pr.running THEN [none |-> TRUE, ret |-> 0] ELSE [none |-> FALSE, ret |-> pr.ret]

\* MainApp._launch_spiral_ui ("Open generator"); found is SPIRAL_UI.exists()
\* and started is whether Popen returns instead of raising.
_launch_spiral_ui(found, started) ==
    /\ ui = "closed"
    /\ Pressed
    /\ Len(procs) < MaxLaunches
    /\ UNCHANGED <<env, docs, var_address, runs, ui, spiral_paths, ports, ports_order,
                   sessions, clicks>>
    /\ IF ~found
       THEN /\ last' = [History("launch_generator") EXCEPT !.dialogs = <<"Missing script">>]
            /\ UNCHANGED <<procs, timers, log>>
       ELSE IF ~started
       THEN /\ last' = [History("launch_generator") EXCEPT !.dialogs = <<"Launch failed">>]
            /\ UNCHANGED <<procs, timers, log>>
       ELSE /\ procs' = Append(procs, NewProc)
            /\ timers' = timers \cup {Len(procs) + 1}
            /\ log' = Append(log, LogEntry("launched", "generator", <<>>))
            /\ last' = [History("launch_generator") EXCEPT !.logged = Len(log)]

\* The i-th generator process exits with a status, having written out and
\* err to its two pipes.
GeneratorExits(i, status, out, err) ==
    /\ i \in 1..Len(procs)
    /\ procs[i].running
    /\ procs' = [procs EXCEPT ![i] = [@ EXCEPT !.running = FALSE, !.ret = status,
                                                !.out = out, !.err = err]]
    /\ UNCHANGED <<env, docs, var_address, log, runs, timers, boxes, ui, spiral_paths,
                   ports, ports_order, sessions, clicks, last>>

\* What _check_proc reports for a failed process: err or out or the status.
FailureText(pr) == IF pr.err # "" THEN pr.err ELSE IF pr.out # "" THEN pr.out ELSE "status"

\* _check_proc scheduling itself again while the process runs.
CheckProcAgainWhileRunning(i) ==
    /\ i \in timers
    /\ Len(procs[i].polled) < 2
    /\ procs' = [procs EXCEPT ![i] = [@ EXCEPT !.polled = Append(@, Poll(procs[i]))]]
    /\ timers' = IF procs[i].running THEN timers ELSE timers \ {i}
    /\ last' = History("check_proc")
    /\ UNCHANGED <<env, docs, var_address, log, runs, boxes, ui, spiral_paths, ports,
                   ports_order, sessions, clicks>>

\* _check_proc, the callback self.after(1200, ...) runs once for the i-th
\* launch, whatever box is open: a running process is left alone, the
\* output of a successful one is logged, and a failed one is shown in the
\* "Generator exited" box, after which the callback goes on.
_check_proc(i) ==
    LET pr == procs[i]
        seen == Poll(pr)
        h == [History("check_proc") EXCEPT !.logged = Len(log)]
        hbox == [h EXCEPT !.dialogs = <<"Generator exited">>]
    IN  /\ i \in timers
        /\ timers' = timers \ {i}
        /\ UNCHANGED <<env, docs, var_address, runs, ui, spiral_paths, ports, ports_order,
                       sessions, clicks>>
        /\ IF seen.none
           THEN /\ procs' = [procs EXCEPT ![i] = [@ EXCEPT !.polled = Append(@, seen)]]
                /\ last' = h
                /\ UNCHANGED <<log, boxes>>
           ELSE IF seen.ret # 0
           THEN /\ procs' = [procs EXCEPT ![i] = [@ EXCEPT !.polled = Append(@, seen),
                                                           !.dialog = FailureText(pr)]]
                /\ last' = hbox
                /\ boxes' = Append(boxes, Frame("Generator exited", hbox, i))
                /\ log' = log
           ELSE IF pr.out # "" \/ pr.err # ""
           THEN /\ procs' = [procs EXCEPT ![i] = [@ EXCEPT !.polled = Append(@, seen),
                                                           !.logged = pr.out \o pr.err]]
                /\ last' = h
                /\ log' = Append(log, LogEntry("generator_output", "generator",
                                               <<pr.out \o pr.err>>))
                /\ boxes' = boxes
           ELSE /\ procs' = [procs EXCEPT ![i] = [@ EXCEPT !.polled = Append(@, seen)]]
                /\ last' = h
                /\ UNCHANGED <<log, boxes>>

\* _check_proc from the closing of its "Generator exited" box: the failure
\* is inserted into the log.
_check_proc_logged ==
    LET i == TopBox.i
    IN  /\ boxes # <<>>
        /\ TopBox.at = "Generator exited"
        /\ procs' = [procs EXCEPT ![i] = [@ EXCEPT !.logged = FailureText(procs[i])]]
        /\ log' = Append(log, LogEntry("generator_failed", "generator",
                                       <<FailureText(procs[i])>>))
        /\ boxes' = UnderTop
        /\ last' = TopBox.h
        /\ UNCHANGED <<env, docs, var_address, runs, timers, ui, spiral_paths, ports,
                       ports_order, sessions, clicks>>

(* ------------------------- PortsPopup: editing ------------------------ *)

\* The order-preserving sub-sequences of a sequence without repetitions.
SubSeqsOf(seq) ==
    {SelectSeq(seq, LAMBDA p : p \in chosen) : chosen \in SUBSET Range(seq)}

\* self.ports.setdefault(path, {}): the store with the key present.
SetDefault(store, path) ==
    [q \in DOMAIN store \cup {path} |-> IF q \in DOMAIN store THEN store[q] ELSE EmptyDict]

\* The keys in insertion order after setdefault(path, {}).
OrderWith(order, path) == IF path \in Range(order) THEN order ELSE Append(order, path)

\* {"type": ..., "signs": [float(s) for s in signs_raw]}
PortEntry(type, values) ==
    PyDict([type |-> PyStr(type),
            signs |-> PyList([i \in 1..Len(values) |-> PyFloat(values[i])])])

\* SizeMismatch checking only the first path of the batch.
SizeMismatchFirstPathOnly(paths, nsigns) ==
    IF paths = <<>> THEN <<>>
    ELSE LET n == _count_conductors(Head(paths))
         IN  IF n # 0 /\ nsigns # n THEN <<Head(paths)>> ELSE <<>>

\* SizeMismatch returning the last failing path instead of the first.
SizeMismatchLast(paths, nsigns) ==
    LET failing == SelectSeq(paths, LAMBDA p : _count_conductors(p) # 0
                                               /\ nsigns # _count_conductors(p))
    IN  IF failing = <<>> THEN <<>> ELSE <<failing[Len(failing)]>>

\* The validation loop of _apply_to_paths: the paths a "Size mismatch"
\* warning is shown for (the loop returns at the first one).
RECURSIVE SizeMismatch(_, _)
SizeMismatch(paths, nsigns) ==
    IF paths = <<>> THEN <<>>
    ELSE LET n == _count_conductors(Head(paths))
         IN  IF n # 0 /\ nsigns # n THEN <<Head(paths)>>
             ELSE SizeMismatch(Tail(paths), nsigns)

\* The commit loop of _apply_to_paths from the given store on; it stops at
\* the first path whose stored value does not take item assignment.
RECURSIVE CommitPorts(_, _, _, _, _)
CommitPorts(paths, name, entry, store, order) ==
    IF paths = <<>> THEN [store |-> store, order |-> order, raised |-> ""]
    ELSE LET p == Head(paths)
             store1 == SetDefault(store, p)
             order1 == OrderWith(order, p)
         IN  IF IsDict(store1[p])
             THEN CommitPorts(Tail(paths), name, entry,
                              [store1 EXCEPT ![p] = DictSet(store1[p], name, entry)],
                              order1)
             ELSE [store |-> store1, order |-> order1, raised |-> "TypeError"]

\* PortsPopup._apply_to_paths(paths) with the form holding name_text, type
\* and signs_text: the store afterwards, the exception raised, the dialog
\* shown and the paths it names.
_apply_to_paths(paths, name_text, type, signs_text) ==
    LET name == Joined(StripChars(name_text, {" ", "\t"}))
        signs_raw == SplitWords(ReplaceChar(signs_text, ",", " "))
        parsed == [i \in 1..Len(signs_raw) |-> ParseFloat(signs_raw[i])]
        bad == SizeMismatch(paths, Len(signs_raw))
        same == [store |-> ports, order |-> ports_order, raised |-> "",
                 dialogs |-> <<>>, reported |-> <<>>, name |-> name,
                 nsigns |-> Len(signs_raw)]
    IN  IF name = "" THEN [same EXCEPT !.dialogs = <<"Missing name">>]
        ELSE IF bad # <<>>
        THEN [same EXCEPT !.dialogs = <<"Size mismatch">>, !.reported = bad]
        ELSE IF paths # <<>> /\ \E i \in 1..Len(parsed) : ~parsed[i].ok
        THEN [same EXCEPT !.raised = "ValueError"]
        ELSE LET entry == PortEntry(type, [i \in 1..Len(parsed) |-> parsed[i].v])
                 done == CommitPorts(paths, name, entry, ports, ports_order)
             IN  [same EXCEPT
                    !.store = done.store,
                    !.order = done.order,
                    !.raised = IF done.raised # "" THEN done.raised
                               ELSE IF ~SummaryOk(done.store) THEN "AttributeError"
                               ELSE ""]

\* Applied with every edit written to disk at once.
AppliedWithAutosave(op, paths, r) ==
    /\ Pressed
    /\ ports' = r.store
    /\ ports_order' = r.order
    /\ clicks' = clicks + 1
    /\ docs' = [q \in DOMAIN docs \cup DOMAIN r.store |->
                  IF q \in DOMAIN r.store THEN PersistedDocument(r.store[q]) ELSE docs[q]]
    /\ last' = [History(op) EXCEPT
                  !.raised = r.raised, !.dialogs = r.dialogs, !.reported = r.reported,
                  !.batch = paths, !.name = r.name, !.nsigns = r.nsigns]
    /\ UNCHANGED <<env, gen, var_address, log, runs, ui, spiral_paths, sessions>>

\* The popup after an apply handler that did r.
Applied(op, paths, r) ==
    /\ Pressed
    /\ ports' = r.store
    /\ ports_order' = r.order
    /\ clicks' = clicks + 1
    /\ last' = [History(op) EXCEPT
                  !.raised = r.raised, !.dialogs = r.dialogs, !.reported = r.reported,
                  !.batch = paths, !.name = r.name, !.nsigns = r.nsigns]
    /\ UNCHANGED <<env, gen, docs, var_address, log, runs, ui, spiral_paths, sessions>>

\* PortsPopup._apply_to_selected with the rows sel selected.
_apply_to_selected(sel, name_text, type, signs_text) ==
    /\ ui \in {"edit", "full"}
    /\ clicks < MaxClicks
    /\ sel # <<>>
    /\ Applied("apply_selected", sel, _apply_to_paths(sel, name_text, type, signs_text))

\* PortsPopup._apply_to_all
_apply_to_all(name_text, type, signs_text) ==
    /\ ui \in {"edit", "full"}
    /\ clicks < MaxClicks
    /\ Applied("apply_all", spiral_paths,
               _apply_to_paths(spiral_paths, name_text, type, signs_text))

\* "name in self.ports[path]" for the values the store can hold:
\* TRUE, FALSE, or "raises" where the value has no membership test.  On a
\* str it is the substring test.
HoldsName(value, name) ==
    CASE value.py = "dict" -> IF name \in DOMAIN value.d THEN "yes" ELSE "no"
      [] value.py = "list" ->
            IF \E i \in 1..Len(value.l) : value.l[i].py = "str" /\ value.l[i].s = name
            THEN "yes" ELSE "no"
      [] value.py = "str" ->
            IF name = "" \/ \E i \in 1..(Len(value.s) - Len(name) + 1) :
                               SubSeq(value.s, i, i + Len(name) - 1) = name
            THEN "yes" ELSE "no"
      [] value.py \in {"None", "int", "float"} -> "raises"

\* PortsPopup._remove_from_selected with the rows sel selected.
_remove_from_selected(sel, name_text) ==
    LET path == sel[1]
        name == Joined(StripChars(name_text, {" ", "\t"}))
        held == IF path \in DOMAIN ports THEN HoldsName(ports[path], name) ELSE "no"
        h == [History("remove") EXCEPT !.batch = <<path>>, !.name = name]
    IN  /\ ui \in {"edit", "full"}
        /\ Pressed
        /\ clicks < MaxClicks
        /\ sel # <<>>
        /\ clicks' = clicks + 1
        /\ ports_order' = ports_order
        /\ UNCHANGED <<env, gen, docs, var_address, log, runs, ui, spiral_paths, sessions>>
        /\ CASE held = "no" -> ports' = ports /\ last' = h
             [] held = "raises" -> ports' = ports /\ last' = [h EXCEPT !.raised = "TypeError"]
             [] held = "yes" /\ ~IsDict(ports[path]) ->
                    \* .pop(name): a list takes no str index, a str has no pop
                    /\ ports' = ports
                    /\ last' = [h EXCEPT !.raised = IF ports[path].py = "list" THEN "TypeError"
                                                    ELSE "AttributeError"]
             [] OTHER ->
                    /\ ports' = [ports EXCEPT ![path] = DictPop(ports[path], name)]
                    /\ last' = [h EXCEPT
                                  !.raised = IF SummaryOk(ports') THEN ""
                                             ELSE "AttributeError"]

(* ---------------------- PortsPopup: save and plots --------------------- *)

\* What write_text leaves when it does not get to its end (the write fails
\* or the process is stopped inside it): the file was opened for writing,
\* which empties it, and holds a proper prefix of the new text, possibly
\* nothing, which is not a JSON text.
HalfWritten == [kind |-> "partial"]

\* WritePorts going on to the next document after a write that fails.
RECURSIVE WritePortsPastFailure(_, _, _)
WritePortsPastFailure(keys, files, attempted) ==
    IF keys = <<>> THEN [docs |-> files, writes |-> attempted, raised |-> ""]
    ELSE LET p == Head(keys)
         IN  WritePortsPastFailure(
                 Tail(keys),
                 [q \in DOMAIN files \cup {p} |->
                     IF q = p /\ p \in writable
                     THEN (IF p \in diskfull THEN HalfWritten ELSE PersistedDocument(ports[p]))
                     ELSE files[q]],
                 Append(attempted, p))

\* The write loop of _save_and_run over the keys left to write: the
\* documents afterwards, the writes attempted in order, and the exception
\* that ended the loop.  write_text raises without touching the file where
\* it cannot be opened, and raises leaving it half written where it is
\* opened (and so emptied) but the text cannot be written.
RECURSIVE WritePorts(_, _, _)
WritePorts(keys, files, attempted) ==
    IF keys = <<>> THEN [docs |-> files, writes |-> attempted, raised |-> ""]
    ELSE LET p == Head(keys)
             with(doc) == [q \in DOMAIN files \cup {p} |-> IF q = p THEN doc ELSE files[q]]
         IN  IF p \notin writable
             THEN [docs |-> files, writes |-> Append(attempted, p), raised |-> "OSError"]
             ELSE IF p \in diskfull
             THEN [docs |-> with(HalfWritten), writes |-> Append(attempted, p),
                   raised |-> "OSError"]
             ELSE WritePorts(Tail(keys), with(PersistedDocument(ports[p])),
                             Append(attempted, p))

\* The loop of _run_plots over the paths left: the calls of
\* PG.process_spiral made in order, the paths whose call appended a record,
\* and the exception that ended the loop.  plotting[p] is what the call does
\* for p: "raise", "none" (returns, no record) or "rec" (appends a record).
RECURSIVE PlotAll(_, _, _)
PlotAll(paths, called, records) ==
    IF paths = <<>> THEN [plots |-> called, records |-> records, raised |-> ""]
    ELSE LET p == Head(paths)
         IN  IF plotting[p] = "raise"
             THEN [plots |-> Append(called, p), records |-> records, raised |-> "PlotError"]
             ELSE PlotAll(Tail(paths), Append(called, p),
                          IF plotting[p] = "rec" THEN Append(records, p) ELSE records)

\* PortsPopup._run_plots
_run_plots == PlotAll(spiral_paths, <<>>, <<>>)

\* PortsPopup._save_and_run
_save_and_run ==
    LET h == [History("save") EXCEPT !.keys = ports_order, !.batch = spiral_paths,
                                     !.logged = Len(log)]
        w == WritePorts(ports_order, docs, <<>>)
        g == _run_plots
        hw == [h EXCEPT !.writes = w.writes,
                        !.order = [i \in 1..Len(w.writes) |-> "write"]]
        hg == [hw EXCEPT !.plots = g.plots, !.records = g.records,
                         !.order = hw.order \o [i \in 1..Len(g.plots) |-> "plot"]]
    IN  /\ ui = "full"
        /\ Pressed
        /\ clicks < MaxClicks
        /\ UNCHANGED <<env, gen, var_address, runs, sessions>>
        /\ IF DOMAIN ports = {}
           THEN /\ last' = [h EXCEPT !.dialogs = <<"No ports">>]
                /\ clicks' = clicks + 1
                /\ UNCHANGED <<docs, log, ui, spiral_paths, ports, ports_order>>
           ELSE /\ docs' = w.docs
                /\ IF w.raised # ""
                   THEN /\ last' = [hw EXCEPT !.raised = w.raised]
                        /\ clicks' = clicks + 1
                        /\ UNCHANGED <<log, ui, spiral_paths, ports, ports_order>>
                   ELSE IF g.raised # ""
                   THEN /\ last' = [hg EXCEPT !.raised = g.raised]
                        /\ log' = Append(log, LogEntry("saved", "ports", <<>>))
                        /\ clicks' = clicks + 1
                        /\ UNCHANGED <<ui, spiral_paths, ports, ports_order>>
                   ELSE /\ last' = [hg EXCEPT !.csv = (g.records # <<>>)]
                        /\ log' = log \o <<LogEntry("saved", "ports", <<>>),
                                           LogEntry(IF g.records # <<>> THEN "plots_complete"
                                                    ELSE "plots_no_records", "ports", <<>>)>>
                        /\ PopupClosed

\* The process is stopped while _save_and_run is in its write loop, at the
\* k-th document: the first k - 1 documents are written, and the k-th is
\* not opened yet ("before"), left half written by write_text, which
\* writes the document in place ("inside"), or completely written
\* ("after"; for the last key every document is complete and new).  The
\* popup and the main panel are gone; the state is that of the program
\* started again over the files left behind: the new MainApp holds no Popen
\* object and no pending callback.
SaveInterrupted(k, at) ==
    LET done == SubSeq(ports_order, 1, k - 1)
        p == ports_order[k]
        w == WritePorts(done, docs, <<>>)
        with(doc) == [q \in DOMAIN w.docs \cup {p} |-> IF q = p THEN doc ELSE w.docs[q]]
    IN  /\ ui = "full"
        /\ Pressed
        /\ clicks < MaxClicks
        /\ k \in 1..Len(ports_order)
        /\ w.raised = ""
        /\ at = "inside" => p \in writable
        /\ at = "after" => p \in writable \ diskfull
        /\ docs' = CASE at = "before" -> w.docs
                      [] at = "inside" -> with(HalfWritten)
                      [] at = "after" -> with(PersistedDocument(ports[p]))
        /\ PopupClosed
        /\ var_address' = ""
        /\ log' = <<>>
        /\ last' = [History("save_interrupted") EXCEPT
                      !.keys = ports_order, !.batch = spiral_paths,
                      !.writes = IF at = "before" THEN done ELSE Append(done, p)]
        /\ procs' = <<>>
        /\ timers' = {}
        /\ UNCHANGED <<env, runs, sessions>>

(* --------------------------- inputs explored -------------------------- *)

\* What a stage's process may do: its exit status and the chunks it writes
\* to its two streams, in the order it writes them.
ProcessBehaviours ==
    LET both == <<[stream |-> "err", text |-> "e1"], [stream |-> "out", text |-> "o1"],
                  [stream |-> "err", text |-> "e2"]>>
    IN  {[exit |-> 0, chunks |-> <<>>],
         [exit |-> 0, chunks |-> both],
         [exit |-> 1, chunks |-> both]}

\* Port names typed into the form.
NameTexts == {<<" ">>, <<" ", "P", "1">>}

\* The port type chosen in the form's read-only combobox in the runs
\* explored (one of "series", "parallel", "custom_pm1").
TypeTexts == {"custom_pm1"}

\* Signs vectors typed into the form.
SignsTexts ==
    {<<>>,
     <<"+", "1">>,
     <<"-", "0", ",", "+", "1">>,
     <<"+", "1", " ", "x">>}

\* What the form holds when an apply button is pressed. With a blank name
\* the handler returns before it reads the signs, so one signs text stands
\* for all of them there.
FormTexts ==
    {[name |-> n, type |-> t, signs |-> s] :
        n \in NameTexts, t \in TypeTexts, s \in SignsTexts}
    \ {[name |-> <<" ">>, type |-> t, signs |-> s] :
          t \in TypeTexts, s \in SignsTexts \ {<<"+", "1">>}}

(* ---------------------------- environments --------------------------- *)

VariantA == <<"w", "a">>
VariantB == <<"w", "b">>
VariantC == <<"w", "c">>
Variants == {VariantA, VariantB, VariantC}

\* A manifest that lists the three variants.
ManifestABC == <<"a", "\n", "b", "\n", "c", "\n">>

\* Manifest texts: plain, quoted with a blank line, naming a folder that
\* does not exist, naming one folder twice, holding a quoted blank, and
\* empty.
ManifestTexts ==
    {ManifestABC,
     <<"'", "a", "'", "\n", " ", "\n", "\"", "b", "\"", "\n">>,
     <<"a", "\n", "z", "\n">>,
     <<"a", "\n", ".", "/", "a", "\n">>,
     <<"a", "\n", "\"", " ", "\"", "\n">>,
     <<>>}

\* The file at the manifest's path: missing, unreadable, or holding a text.
ManifestChoices ==
    {[isFile |-> FALSE, readable |-> FALSE, text |-> <<>>],
     [isFile |-> TRUE, readable |-> FALSE, text |-> <<>>]}
    \cup [isFile : {TRUE}, readable : {TRUE}, text : ManifestTexts]

\* How writing the documents of some variants may fail: nowhere, at opening
\* one variant's document, or at writing it once opened.
WriteFailures(among) ==
    {[writable |-> Variants, diskfull |-> {}]}
    \cup {[writable |-> Variants \ {p}, diskfull |-> {}] : p \in among}
    \cup {[writable |-> Variants, diskfull |-> {p}] : p \in among}

\* A CapacitanceMatrix.txt that cannot be loaded, and one with n rows.
BadMatrix == [ok |-> FALSE, rows |-> 0]
Matrix(n) == [ok |-> TRUE, rows |-> n]

\* Conductor counts of the three variants in the environments explored.
MatrixChoices ==
    {[p \in Variants |-> IF p = VariantA THEN BadMatrix ELSE Matrix(2)],
     [p \in Variants |-> IF p = VariantC THEN Matrix(1) ELSE Matrix(2)]}

\* {"ports": {"P1": {"type": "series", "signs": [1]},
\*            "P2": {"type": "parallel", "signs": [-1.0]}}}
DocTwoPorts ==
    JsonFile(JObject([ports |-> JObject(
        [P1 |-> JObject([type |-> JString("series"),
                         signs |-> JArray(<<JNumber(FALSE, 1, FALSE)>>)]),
         P2 |-> JObject([type |-> JString("parallel"),
                         signs |-> JArray(<<JNumber(TRUE, 1, TRUE)>>)])])]))

\* Documents found on disk: none, not JSON, a two-port document, and
\* JSON of other shapes: {"ports": null}, {"ports": []},
\* {"ports": "xP1x"}, [] and {}.
DocChoices ==
    {NoFile, NotJson, DocTwoPorts,
     JsonFile(JObject([ports |-> JNull])),
     JsonFile(JObject([ports |-> JArray(<<>>)])),
     JsonFile(JObject([ports |-> JString("xP1x")])),
     JsonFile(JArray(<<>>)),
     JsonFile(JObject(<<>>))}

InitMain ==
    /\ var_address = ""
    /\ log = <<>>
    /\ procs = <<>>
    /\ timers = {}
    /\ boxes = <<>>
    /\ runs = 0
    /\ ui = "closed"
    /\ spiral_paths = <<>>
    /\ ports = <<>>
    /\ ports_order = <<>>
    /\ sessions = 0
    /\ clicks = 0
    /\ last = NoHistory

\* The ports store over three solved variants, with documents of every kind.
InitPorts ==
    /\ InitMain
    /\ manifest = [isFile |-> TRUE, readable |-> TRUE, text |-> ManifestABC]
    /\ dirs = Variants
    /\ matrix \in MatrixChoices
    /\ \E a \in DocChoices :
          docs = [p \in Variants |-> IF p = VariantA THEN a ELSE NoFile]
    /\ writable = Variants
    /\ diskfull = {}
    /\ plotting = [p \in Variants |-> "rec"]

\* The ports store with one saved document, where writing a document may
\* fail and plotting a variant may fail.
InitSave ==
    /\ InitMain
    /\ manifest = [isFile |-> TRUE, readable |-> TRUE, text |-> ManifestABC]
    /\ dirs = Variants
    /\ matrix = [p \in Variants |-> Matrix(1)]
    /\ \E d \in {VariantA, VariantB} :
          docs = [p \in Variants |-> IF p = d THEN DocTwoPorts ELSE NoFile]
    /\ \E f \in WriteFailures(Variants) : writable = f.writable /\ diskfull = f.diskfull
    /\ plotting \in {[p \in Variants |-> "rec"], [p \in Variants |-> "none"]}
                    \cup {[p \in Variants |-> IF p = q THEN "raise" ELSE "rec"] :
                             q \in Variants}

\* What a generator process leaves when it exits.
ExitStatuses == {0, 1}
PipeTexts == {"", "t"}

\* The generator exits explored next to a pipeline run: a success that
\* wrote to its output, and a failure that wrote to its error stream.
GeneratorOutcomes ==
    {[status |-> 0, out |-> "t", err |-> ""], [status |-> 1, out |-> "", err |-> "t"]}

\* The main panel over manifests of every kind.
InitPipeline ==
    /\ InitMain
    /\ manifest \in ManifestChoices
    /\ dirs = Variants
    /\ matrix = [p \in Variants |-> Matrix(1)]
    /\ docs = [p \in Variants |-> IF p = VariantA THEN DocTwoPorts ELSE NoFile]
    /\ writable = Variants
    /\ diskfull = {}
    /\ plotting = [p \in Variants |-> "rec"]

(* ------------------------------ next state ---------------------------- *)

\* The main panel: address, generator, pipeline, opening and closing the
\* popup, and the generator's timer callbacks, which run whatever box or
\* window is open.
NextMain ==
    \/ _browse_address
    \/ VerifyClicked
    \/ \E found \in BOOLEAN, started \in BOOLEAN :
          runs + Len(procs) < MaxRuns /\ _launch_spiral_ui(found, started)
    \/ \E i \in 1..MaxLaunches, e \in GeneratorOutcomes :
          GeneratorExits(i, e.status, e.out, e.err)
    \/ \E i \in 1..MaxLaunches : _check_proc(i)
    \/ _check_proc_logged
    \/ _run_pipeline
    \/ \E conv \in ProcessBehaviours, solve \in ProcessBehaviours :
          _run_pipeline_stages(conv, solve)
    \/ _run_pipeline_popup
    \/ _open_ports_popup
    \/ PopupLoaded
    \/ Cancel

\* The ports popup: opened from the main panel, edited, saved or cancelled.
NextPorts ==
    \/ _browse_address
    \/ _open_ports_popup
    \/ Cancel
    \/ \E sel \in SubSeqsOf(spiral_paths), f \in FormTexts :
          _apply_to_selected(sel, f.name, f.type, f.signs)
    \/ \E f \in FormTexts : _apply_to_all(f.name, f.type, f.signs)
    \/ \E sel \in SubSeqsOf(spiral_paths), n \in NameTexts : _remove_from_selected(sel, n)
    \/ _save_and_run


\* The main panel with no address chosen: only the generator is used.
InitGenerator ==
    /\ InitMain
    /\ manifest = [isFile |-> FALSE, readable |-> FALSE, text |-> <<>>]
    /\ dirs = {}
    /\ matrix = <<>>
    /\ docs = <<>>
    /\ writable = {}
    /\ diskfull = {}
    /\ plotting = <<>>

\* The geometry generator: launched, exiting by itself, checked by the timer.
NextGenerator ==
    \/ \E found \in BOOLEAN, started \in BOOLEAN : _launch_spiral_ui(found, started)
    \/ \E i \in 1..MaxLaunches, status \in ExitStatuses, out \in PipeTexts, err \in PipeTexts :
          GeneratorExits(i, status, out, err)
    \/ \E i \in 1..MaxLaunches : _check_proc(i)
    \/ _check_proc_logged

SpecGenerator == InitGenerator /\ [][NextGenerator]_vars

SpecPorts == InitPorts /\ [][NextPorts]_vars

SpecSave == InitSave /\ [][NextPorts]_vars

SpecMain == InitPipeline /\ [][NextMain]_vars

\* The ports store where every document can be written and every plot
\* succeeds, with one saved document.
InitCrash ==
    /\ InitMain
    /\ manifest = [isFile |-> TRUE, readable |-> TRUE, text |-> ManifestABC]
    /\ dirs = Variants
    /\ matrix = [p \in Variants |-> Matrix(1)]
    /\ \E d \in {VariantA, VariantB} :
          docs = [p \in Variants |-> IF p = d THEN DocTwoPorts ELSE NoFile]
    /\ writable = Variants
    /\ diskfull = {}
    /\ plotting = [p \in Variants |-> "rec"]

\* The ports store with variant a's document saved, where the write of
\* a's or b's document may fail and the plot of variant b may fail.
InitPersist ==
    /\ InitMain
    /\ manifest = [isFile |-> TRUE, readable |-> TRUE, text |-> ManifestABC]
    /\ dirs = Variants
    /\ matrix = [p \in Variants |-> Matrix(1)]
    /\ docs = [p \in Variants |-> IF p = VariantA THEN DocTwoPorts ELSE NoFile]
    /\ \E f \in WriteFailures({VariantA, VariantB}) :
          writable = f.writable /\ diskfull = f.diskfull
    /\ plotting \in {[p \in Variants |-> "rec"],
                     [p \in Variants |-> IF p = VariantB THEN "raise" ELSE "rec"]}

SpecPersist == InitPersist /\ [][NextPorts]_vars

\* The ports popup, where the process may be stopped during a save.
NextCrash ==
    \/ NextPorts
    \/ \E k \in 1..Len(ports_order), at \in {"before", "inside", "after"} :
          SaveInterrupted(k, at)

SpecCrash == InitCrash /\ [][NextCrash]_vars

(* ------------------------------- claims ------------------------------ *)

\* The log entries inserted by the last handler.
LoggedByLast == SubSeq(log, last.logged + 1, Len(log))

\* The entries of a log whose kind is k and whose stage is st.
EntriesOf(entries, k, st) == SelectSeq(entries, LAMBDA e : e.kind = k /\ e.stage = st)

\* C1: in one pipeline run the stages are launched in the order conversion,
\* solve, each at most once; a stage that exits non-zero is the last one
\* launched, the run reports the failure and does not go on (no solve after
\* a failed conversion, no popup after a failed solve), and the log of the
\* run holds entries of launched stages only, one command line per stage.
C1_FailFast ==
    last.op = "run_pipeline" =>
        /\ last.launched \in {<<>>, <<"conversion">>, <<"conversion", "solve">>}
        /\ \A i \in 1..Len(last.launched) :
              last.exits[i] # 0 =>
                  /\ i = Len(last.launched)
                  /\ ~last.opened
                  /\ last.dialogs[Len(last.dialogs)] = "Command failed"
        /\ \A i \in 1..Len(LoggedByLast) :
              LoggedByLast[i].stage \in Range(last.launched) \cup {"generator"}
        /\ \A st \in Range(last.launched) :
              Len(EntriesOf(LoggedByLast, "cmd", st)) = 1

\* C1 witness: a run in which the conversion succeeded and the solve
\* failed, with a generator's output logged while the run's first box was
\* open.
C1_Witness ==
    /\ last.op = "run_pipeline"
    /\ \E i \in 1..Len(LoggedByLast) : LoggedByLast[i].kind = "generator_output"
    /\ last.launched = <<"conversion", "solve">>
    /\ last.exits = <<0, 1>>
    /\ ~last.opened
    /\ ui = "closed"

\* C10: a pipeline run launches a stage only if, in that run, the manifest
\* was verified: it is a readable file and every parsed entry exists.
C10_Gate ==
    (last.op = "run_pipeline" /\ last.launched # <<>>) =>
        /\ last.verified
        /\ last.dialogs[1] = "Address check"
        /\ var_address # ""
        /\ manifest.isFile
        /\ manifest.readable
        /\ \A p \in Range(read_address_entries(manifest.text)) : p \in dirs

\* C10 witness: a run that launched the conversion over a verified manifest.
C10_Witness ==
    /\ last.op = "run_pipeline"
    /\ last.launched # <<>>
    /\ last.verified
    /\ read_address_entries(manifest.text) # <<>>

\* The variants of a batch that fail dimension validation against nsigns
\* signs: a nonzero conductor count different from nsigns.
Failing(batch, nsigns) ==
    {p \in Range(batch) : _count_conductors(p) # 0 /\ nsigns # _count_conductors(p)}

\* The failing variants of a batch, in batch order.
FailingInOrder(batch, nsigns) == SelectSeq(batch, LAMBDA p : p \in Failing(batch, nsigns))

ApplyOps == {"apply_selected", "apply_all"}

\* A step of one of the two apply handlers.
ApplyStep == last'.op \in ApplyOps /\ clicks' = clicks + 1

\* C2: an apply over several variants of which exactly one fails dimension
\* validation changes no variant's port mapping, in the batch or outside it,
\* and (for a port name that is not blank) reports exactly that variant.
C2_AllOrNothing ==
    [][(/\ ApplyStep
        /\ Len(last'.batch) >= 2
        /\ Cardinality(Failing(last'.batch, last'.nsigns)) = 1)
       => /\ ports' = ports
          /\ ports_order' = ports_order
          /\ last'.name # "" =>
                /\ last'.dialogs = <<"Size mismatch">>
                /\ Len(last'.reported) = 1
                /\ Range(last'.reported) = Failing(last'.batch, last'.nsigns)]_vars

\* C2 witness: an apply over several variants, exactly one of them failing,
\* was refused with that variant reported, while the store holds ports.
C2_Witness ==
    /\ last.op \in ApplyOps
    /\ last.name # ""
    /\ Len(last.batch) >= 2
    /\ Cardinality(Failing(last.batch, last.nsigns)) = 1
    /\ Range(last.reported) = Failing(last.batch, last.nsigns)
    /\ \E p \in DOMAIN ports : IsDict(ports[p]) /\ DOMAIN ports[p].d # {}

\* C3 as claimed: an apply reports the full set of failing variants of the
\* batch, every failing one and no passing one.
C3_ReportsAllFailing ==
    (last.op \in ApplyOps /\ last.name # "") =>
        Range(last.reported) = Failing(last.batch, last.nsigns)

\* C3 as amended: an apply with failing variants in its batch reports one
\* variant only, the first failing one in batch order, and none otherwise.
C3_ReportsFirstFailing ==
    (last.op \in ApplyOps /\ last.name # "") =>
        LET failing == FailingInOrder(last.batch, last.nsigns)
        IN  last.reported = IF failing = <<>> THEN <<>> ELSE <<failing[1]>>

\* C3 witness: a batch with a passing variant and two failing ones, of which
\* the first is reported.
C3_Witness ==
    /\ last.op \in ApplyOps
    /\ last.name # ""
    /\ Cardinality(Failing(last.batch, last.nsigns)) >= 2
    /\ Range(last.batch) \ Failing(last.batch, last.nsigns) # {}
    /\ last.reported = <<FailingInOrder(last.batch, last.nsigns)[1]>>

\* C4 as claimed: define on one variant, with a port name that is not blank
\* and signs that are numbers: when the variant's count is zero or equals
\* the number of signs it succeeds and the port is held under that name with
\* those signs; when the count is nonzero and differs it fails with a size
\* mismatch and leaves the store unchanged.
C4_Define ==
    [][(/\ ApplyStep
        /\ Len(last'.batch) = 1
        /\ last'.name # ""
        /\ last'.raised # "ValueError")
       => LET v == last'.batch[1]
              n == _count_conductors(v)
          IN  IF n = 0 \/ last'.nsigns = n
              THEN /\ last'.dialogs = <<>>
                   /\ v \in DOMAIN ports'
                   /\ IsDict(ports'[v])
                   /\ last'.name \in DOMAIN ports'[v].d
                   /\ Len(ports'[v].d[last'.name].d.signs.l) = last'.nsigns
              ELSE /\ last'.dialogs = <<"Size mismatch">>
                   /\ ports' = ports
                   /\ ports_order' = ports_order]_vars

\* C7 as claimed: every port definition the store holds for a variant whose
\* conductor count is nonzero has as many signs as the variant has conductors.
C7_StoreDimension ==
    \A p \in DOMAIN ports :
        (_count_conductors(p) # 0 /\ IsDict(ports[p])) =>
            \A n \in DOMAIN ports[p].d :
                LET def == ports[p].d[n]
                IN  (IsDict(def) /\ "signs" \in DOMAIN def.d /\ def.d["signs"].py = "list")
                        => Len(def.d["signs"].l) = _count_conductors(p)

\* C8: a document on disk changes only in a step of the save handler.
C8_NoAutosave == [][docs' # docs => last'.op = "save"]_vars

\* C8 witness: an apply has changed the store of an open popup, which now
\* differs from what the documents on disk hold.
C8_Witness ==
    /\ ui # "closed"
    /\ last.op \in ApplyOps
    /\ last.dialogs = <<>>
    /\ last.raised = ""
    /\ ports # _load_existing_ports(spiral_paths)

\* C9: for every variant of the store, loading the document that persisting
\* its mapping writes gives back the mapping: same names, types and signs.
C9_RoundTrip ==
    \A p \in DOMAIN ports : LoadDocument(PersistedDocument(ports[p])) = ports[p]

\* C9 witness: the store holds a port with the signs -0.0 and 1.0 put there
\* by an apply, next to ports that were loaded (one with the sign -1.0).
C9_Witness ==
    \E p \in DOMAIN ports :
        /\ IsDict(ports[p])
        /\ "P1" \in DOMAIN ports[p].d
        /\ ports[p].d["P1"] = PortEntry("custom_pm1", <<Float(TRUE, 0), Float(FALSE, 1)>>)
        /\ \E q \in DOMAIN ports : q # p /\ IsDict(ports[q]) /\ "P2" \in DOMAIN ports[q].d

\* C5 as claimed: a save that gets to writing attempts the write of every
\* variant of the store, whichever writes fail.
C5_AllWritesAttempted ==
    (last.op = "save" /\ last.dialogs = <<>>) => Range(last.writes) = Range(last.keys)

\* C6 as claimed: over variants [X valid, Y raises, Z valid] plot dispatch
\* calls the collaborator for all three, keeps the records of X and Z, logs
\* the failure of Y and raises nothing.
C6_PlotIsolation ==
    (/\ last.op = "save"
     /\ last.plots # <<>>
     /\ Len(last.batch) = 3
     /\ plotting[last.batch[1]] = "rec"
     /\ plotting[last.batch[2]] = "raise"
     /\ plotting[last.batch[3]] = "rec")
    => /\ last.plots = last.batch
       /\ last.records = <<last.batch[1], last.batch[3]>>
       /\ last.raised = ""
       /\ \E i \in 1..Len(LoggedByLast) :
             LoggedByLast[i].kind = "plot_failed"
             /\ LoggedByLast[i].stage = NameOf(last.batch[2])

\* C11 as claimed: whenever a save is interrupted, every variant's document
\* is a complete document (its prior content or the new content), never a
\* half-written one.
C11_NeverHalfWritten ==
    \A p \in DOMAIN docs : docs[p] # HalfWritten

\* The last handler parsed the manifest: it verified the address and got
\* past the file and read checks.
ParsedByLast ==
    /\ last.verified
    /\ last.dialogs # <<>>
    /\ last.dialogs[1] \in {"Missing folders", "Address check"}

\* C12 as claimed: the sequence parse returns holds no two equal entries,
\* whatever the manifest lists.
C12_UniqueEntries ==
    ParsedByLast =>
        LET entries == read_address_entries(manifest.text)
        IN  Cardinality(Range(entries)) = Len(entries)

\* A line as the claim strips it: leading and trailing whitespace, then at
\* most one quote character at each end.
StrippedOnce(line) ==
    LET t == StripChars(line, {" ", "\t"})
        u == IF t # <<>> /\ Head(t) \in {"\"", "'"} THEN Tail(t) ELSE t
    IN  IF u # <<>> /\ u[Len(u)] \in {"\"", "'"} THEN SubSeq(u, 1, Len(u) - 1) ELSE u

\* The lines the claim counts: not blank and not whitespace-only after
\* that stripping.
CountedLines(text) ==
    SelectSeq(SplitLines(text), LAMBDA l : StripChars(StrippedOnce(l), {" ", "\t"}) # <<>>)

\* C13 as claimed: parse returns one entry per counted line, in file order,
\* the i-th entry from the i-th counted line.
C13_EntryPerLine ==
    ParsedByLast =>
        LET entries == read_address_entries(manifest.text)
            lines == CountedLines(manifest.text)
        IN  /\ Len(entries) = Len(lines)
            /\ \A i \in 1..Len(lines) : entries[i] = EntryOf(StripLine(lines[i]))

RECURSIVE Flattened(_)
\* The concatenation of a sequence of sequences.
Flattened(seqs) == IF seqs = <<>> THEN <<>> ELSE Head(seqs) \o Flattened(Tail(seqs))

\* The output texts the log holds for a stage, in log order.
StageOutput(entries, st) ==
    LET held == SelectSeq(entries, LAMBDA e : e.stage = st /\ e.kind \in {"stdout", "stderr"})
    IN  Flattened([i \in 1..Len(held) |-> held[i].data])

\* The texts of the chunks a process wrote, in the order it wrote them.
Emitted(chunks) == [i \in 1..Len(chunks) |-> chunks[i].text]

\* The texts of the chunks a process wrote to one stream, in order.
EmittedTo(chunks, stream) == Emitted(SelectSeq(chunks, LAMBDA c : c.stream = stream))

\* In the last pipeline run every insertion of a stage's output comes after
\* the stage ran, before any later stage is run and before the stage's
\* failure dialog.
OutputLoggedInTime ==
    \A i \in 1..Len(last.launched) : \A j, k \in 1..Len(last.events) :
        LET e == last.events[j]
            f == last.events[k]
        IN  (e.ev = "insert" /\ e.stage = last.launched[i] /\ e.kind \in {"stdout", "stderr"})
            => /\ (f.ev = "run" /\ f.stage = e.stage) => k < j
               /\ (f.ev = "run" /\ \E i2 \in (i + 1)..Len(last.launched) :
                                        f.stage = last.launched[i2]) => j < k
               /\ (f.ev = "dialog" /\ f.stage = e.stage) => j < k

\* C14 as claimed: the log holds each launched stage's output chunk by
\* chunk in the order the process wrote them, the two streams interleaved,
\* inserted before the next stage runs and before the failure dialog.
C14_InterleavedAsEmitted ==
    last.op = "run_pipeline" =>
        /\ \A i \in 1..Len(last.launched) :
              StageOutput(LoggedByLast, last.launched[i]) = Emitted(last.emitted[i])
        /\ OutputLoggedInTime

\* C14 as amended: the log holds each launched stage's whole standard
\* output followed by its whole standard error, each stream's chunks in the
\* order written, inserted before the next stage runs and before the
\* failure dialog.
C14_StdoutThenStderr ==
    last.op = "run_pipeline" =>
        /\ \A i \in 1..Len(last.launched) :
              StageOutput(LoggedByLast, last.launched[i])
                  = EmittedTo(last.emitted[i], "out") \o EmittedTo(last.emitted[i], "err")
        /\ OutputLoggedInTime

\* C14 witness: a run whose conversion wrote to standard error, then to
\* standard output, then to standard error again, and whose solve failed
\* after writing the same.
C14_Witness ==
    /\ last.op = "run_pipeline"
    /\ last.launched = <<"conversion", "solve">>
    /\ last.exits = <<0, 1>>
    /\ Len(last.emitted[1]) = 3
    /\ last.emitted[1][1].stream = "err"
    /\ Len(last.emitted[2]) = 3
    /\ StageOutput(LoggedByLast, "conversion") = <<"o1", "e1", "e2">>
    /\ Len(LoggedByLast) = 7

\* A document that parses into a mapping of port name to port definition:
\* a JSON object whose "ports" member is an object of objects.
ParsesToMapping(doc) ==
    /\ doc.kind = "json"
    /\ doc.text.j = "object"
    /\ "ports" \in DOMAIN doc.text.m
    /\ doc.text.m["ports"].j = "object"
    /\ \A n \in DOMAIN doc.text.m["ports"].m : doc.text.m["ports"].m[n].j = "object"

\* C15 as claimed: when the popup opens, every listed variant with a
\* document holds the mapping its document parses into, or the empty
\* mapping when the document does not parse into one, and the popup is
\* built in full (summary shown, define, remove and save available).
C15_LoadIsolated ==
    (last.op = "open_popup" /\ last.opened) =>
        /\ last.raised = ""
        /\ ui = "full"
        /\ \A p \in Range(spiral_paths) :
               DocExists(p) =>
                   /\ p \in DOMAIN ports
                   /\ ports[p] = IF ParsesToMapping(docs[p])
                                 THEN JsonLoads(docs[p].text.m["ports"])
                                 ELSE EmptyDict

\* C16 as claimed: a remove of a name from a variant raises nothing; it
\* deletes exactly that name from the variant's mapping when it is there
\* and changes nothing when it is not (or the variant has no mapping); the
\* variant's other ports and every other variant's mapping stay as they are.
C16_Remove ==
    [][(last'.op = "remove" /\ clicks' = clicks + 1)
       => LET v == last'.batch[1]
              n == last'.name
          IN  /\ last'.raised = ""
              /\ ports_order' = ports_order
              /\ DOMAIN ports' = DOMAIN ports
              /\ \A q \in DOMAIN ports \ {v} : ports'[q] = ports[q]
              /\ (v \in DOMAIN ports /\ IsDict(ports[v])) =>
                     /\ IsDict(ports'[v])
                     /\ ports'[v].d = [k \in DOMAIN ports[v].d \ {n} |-> ports[v].d[k]]]_vars

\* C17 as claimed: a save pressed while no variant of the store holds a
\* port definition writes no document and calls the plot collaborator for
\* no variant.
C17_SaveNeedsPort ==
    [][(/\ last'.op = "save"
        /\ \A p \in DOMAIN ports : IsDict(ports[p]) /\ DOMAIN ports[p].d = {})
       => /\ last'.writes = <<>>
          /\ last'.plots = <<>>
          /\ docs' = docs]_vars

\* C18: in one save every write comes before every call of the plot
\* collaborator; the collaborator is called only after the document of
\* every variant of the store has been written, and for no variant when a
\* write fails.
C18_PersistBeforeDispatch ==
    last.op = "save" =>
        /\ \A i, j \in 1..Len(last.order) :
               (last.order[i] = "write" /\ last.order[j] = "plot") => i < j
        /\ last.plots # <<>> =>
               /\ last.writes = last.keys
               /\ Range(last.keys) \subseteq writable \ diskfull
        /\ (\E p \in Range(last.writes) : p \notin writable \ diskfull) => last.plots = <<>>

\* C18 witness: a save that wrote the documents of two variants and then
\* called the plot collaborator for the three listed variants.
C18_Witness ==
    /\ last.op = "save"
    /\ Len(last.writes) >= 2
    /\ Len(last.plots) = 3
    /\ last.order = <<"write", "write", "plot", "plot", "plot">>

\* C19: each launched generator is polled once, by its timer callback, and
\* never again: not before the callback fires and exactly once after; a
\* generator seen exited with a non-zero status is shown in an error dialog
\* and, once that dialog is closed, logged; a generator seen running is
\* never shown or logged, whatever status it exits with later.
C19_CheckedOnce ==
    \A i \in 1..Len(procs) :
        LET pr == procs[i]
        IN  /\ Len(pr.polled) = (IF i \in timers THEN 0 ELSE 1)
            /\ (pr.polled # <<>> /\ ~pr.polled[1].none /\ pr.polled[1].ret # 0) =>
                   /\ pr.dialog # ""
                   /\ \/ \E k \in 1..Len(boxes) :
                             boxes[k].at = "Generator exited" /\ boxes[k].i = i
                      \/ /\ pr.logged = pr.dialog
                         /\ \E k \in 1..Len(log) :
                                log[k] = LogEntry("generator_failed", "generator",
                                                  <<pr.dialog>>)
            /\ (pr.polled # <<>> /\ pr.polled[1].none) =>
                   /\ pr.dialog = ""
                   /\ pr.logged = ""
                   /\ \A k \in 1..Len(boxes) : boxes[k].i # i

\* C19 witness: of two generators checked, the first was seen running and
\* has since exited with a non-zero status without any report, the second
\* was seen exited with a non-zero status and reported.
C19_Witness ==
    /\ Len(procs) = 2
    /\ timers = {}
    /\ procs[1].polled # <<>> /\ procs[1].polled[1].none
    /\ ~procs[1].running /\ procs[1].ret = 1 /\ procs[1].dialog = ""
    /\ procs[2].polled # <<>> /\ ~procs[2].polled[1].none
    /\ procs[2].ret = 1 /\ procs[2].dialog # "" /\ procs[2].logged # ""
    /\ boxes = <<>>

====
